---- MODULE Spec2Model ----
(***************************************************************************)
(* The image-processor service: the transform handler (handler.rs), the    *)
(* object fetch (storage.rs) and the transform pipeline (transform.rs).    *)
(*                                                                         *)
(* Conventions.  Option<T> is a sequence: <<>> is None, <<v>> is Some(v).  *)
(* A byte string is a sequence of byte values (0..255).  A body (Bytes)    *)
(* is [head |-> its leading bytes (at most 12), len |-> its length]: the   *)
(* code reads nothing of a body but its length and its first 12 bytes.     *)
(***************************************************************************)
EXTENDS Integers, Sequences, FiniteSets, TLC

VARIABLES
    req,        \* req[r]: the request as it arrives: key and raw query, and the world it meets
    pc,         \* pc[r]: where the handler of request r stands
    fetches,    \* fetches[r]: get_object sends issued for r
    bodyReads,  \* bodyReads[r]: body reads (collect) started for r
    input,      \* input[r]: what get_object returned: <<>> or <<bytes>>
    run,        \* run[r]: the record of transform::transform's run for r
    resp        \* resp[r]: the response sent for r

vars == <<req, pc, fetches, bodyReads, input, run, resp>>

(***************************************************************************)
(* Bounds of the model.                                                    *)
(***************************************************************************)
NumReq == 2
MaxKeyTokens == 3

Reqs == 1..NumReq

(***************************************************************************)
(* Program constants.                                                      *)
(***************************************************************************)
MAX_DIMENSION == 4096
MAX_PIXELS == 16777216
DEFAULT_QUALITY == 80
MAX_INPUT_SIZE == 10 * 1024 * 1024
MAX_KEY_LEN == 1024
CACHE_CONTROL_IMMUTABLE == "public, max-age=31536000, immutable"

None == <<>>
Some(v) == <<v>>
IsSome(o) == o # <<>>
Unwrap(o) == o[1]

(***************************************************************************)
(* IEEE-754 binary64 arithmetic, as far as calculate_contain_dimensions    *)
(* uses it.  A positive finite f64 is [m |-> 53 bits, most significant     *)
(* first and m[1] = 1, e |-> the weight of the last bit]: m * 2^e.  Every  *)
(* operation is the exact result rounded to nearest, ties to even.  The    *)
(* integers that enter (u32 dimensions below 2^22) are exact as f64.       *)
(***************************************************************************)
F64_MANTISSA_BITS == 53

Zeros(n) == [i \in 1..n |-> 0]

\* The binary digits of n (0 <= n < 2^30), most significant first, none for 0.
BitsOf(n) ==
    LET len == CHOOSE k \in 0..30 : n < 2^k /\ (k = 0 \/ n >= 2^(k - 1))
    IN [i \in 1..len |-> (n \div 2^(len - i)) % 2]

\* The number a bit string of at most 30 bits writes.
RECURSIVE IntOf(_)
IntOf(bits) ==
    LET n == Len(bits)
        h == n \div 2
    IN IF n = 0 THEN 0
       ELSE IF n = 1 THEN bits[1]
       ELSE IntOf(SubSeq(bits, 1, h)) * 2^(n - h) + IntOf(SubSeq(bits, h + 1, n))

\* The bits of a string of base-256 digits, most significant first.
BitsOfDigits(digits) ==
    [i \in 1..(8 * Len(digits)) |->
        (digits[((i - 1) \div 8) + 1] \div 2^(7 - ((i - 1) % 8))) % 2]

\* bits without its leading zeros (bits holds a 1).
StripLeadingZeros(bits) ==
    LET first == CHOOSE i \in 1..Len(bits) :
                     bits[i] = 1 /\ \A j \in 1..(i - 1) : bits[j] = 0
    IN SubSeq(bits, first, Len(bits))

\* bits + 1, as [bits, carry]: carry = 1 when every bit was 1.
IncBits(bits) ==
    LET n == Len(bits)
        zs == {i \in 1..n : bits[i] = 0}
    IN IF zs = {} THEN [bits |-> Zeros(n), carry |-> 1]
       ELSE LET z == CHOOSE i \in zs : \A j \in zs : j <= i
            IN [bits |-> [i \in 1..n |-> IF i < z THEN bits[i]
                                         ELSE IF i = z THEN 1 ELSE 0],
                carry |-> 0]

\* The f64 nearest to bits * 2^e (+ something below the last bit when sticky);
\* bits starts with a 1.
F64RoundNearestEven(bits, e, sticky) ==
    LET n == Len(bits) IN
    IF n <= F64_MANTISSA_BITS
    THEN [m |-> bits \o Zeros(F64_MANTISSA_BITS - n), e |-> e - (F64_MANTISSA_BITS - n)]
    ELSE LET keep == SubSeq(bits, 1, F64_MANTISSA_BITS)
             e2 == e + (n - F64_MANTISSA_BITS)
             half == bits[F64_MANTISSA_BITS + 1] = 1
             rest == sticky \/ \E i \in (F64_MANTISSA_BITS + 2)..n : bits[i] = 1
             roundUp == half /\ (rest \/ keep[F64_MANTISSA_BITS] = 1)
             up == IncBits(keep)
         IN IF ~roundUp THEN [m |-> keep, e |-> e2]
            ELSE IF up.carry = 0 THEN [m |-> up.bits, e |-> e2]
            ELSE [m |-> <<1>> \o Zeros(F64_MANTISSA_BITS - 1), e |-> e2 + 1]

\* Long division r / b below the binary point, n base-256 digits of it:
\* [digits, rem].  r < b < 2^22.
RECURSIVE DivDigits(_, _, _, _)
DivDigits(r, b, acc, n) ==
    IF Len(acc) = n THEN [digits |-> acc, rem |-> r]
    ELSE DivDigits((r * 256) % b, b, Append(acc, (r * 256) \div b), n)

\* a as f64 / b as f64, for integers 1 <= a, b < 2^22.  Ten digits (80 bits)
\* below the point hold the 54 bits the rounding reads: a/b >= 2^-22.
F64Div(a, b) ==
    LET frac == DivDigits(a % b, b, <<>>, 10)
        q == BitsOf(a \div b) \o BitsOfDigits(frac.digits)
    IN F64RoundNearestEven(StripLeadingZeros(q), -80, frac.rem # 0)

\* digits * n + carry in base 256, from the last digit: [digits, carry].
RECURSIVE MulDigits(_, _, _, _)
MulDigits(digits, n, carry, acc) ==
    IF Len(acc) = Len(digits) THEN [digits |-> acc, carry |-> carry]
    ELSE LET d == digits[Len(digits) - Len(acc)] * n + carry
         IN MulDigits(digits, n, d \div 256, <<d % 256>> \o acc)

\* n as f64 * x, for an integer 1 <= n < 2^22: the 53 bits of x.m as seven
\* base-256 digits, times n.
F64MulInt(n, x) ==
    LET padded == Zeros(3) \o x.m
        digits == [k \in 1..7 |-> IntOf(SubSeq(padded, 8 * k - 7, 8 * k))]
        p == MulDigits(digits, n, 0, <<>>)
        bits == BitsOf(p.carry) \o BitsOfDigits(p.digits)
    IN F64RoundNearestEven(StripLeadingZeros(bits), x.e, FALSE)

F64LessEq(x, y) ==
    \/ x.e < y.e
    \/ /\ x.e = y.e
       /\ LET diff == {i \in 1..F64_MANTISSA_BITS : x.m[i] # y.m[i]}
          IN diff = {} \/ x.m[CHOOSE i \in diff : \A j \in diff : i <= j] = 0

\* f64::min
F64Min(x, y) == IF F64LessEq(x, y) THEN x ELSE y

\* f64::round (half away from zero) followed by `as u32`.  The value lies in
\* [2^(k-1), 2^k) with k = 53 + e integer bits.  The cast saturates at
\* u32::MAX; the sources of this model keep every scaled dimension below
\* 2^30 (k <= 30), where the cast is the identity.
F64RoundAsU32(x) ==
    LET k == F64_MANTISSA_BITS + x.e IN
    IF k < 0 THEN 0
    ELSE IntOf(SubSeq(x.m, 1, k)) + x.m[k + 1]

Max(a, b) == IF a >= b THEN a ELSE b

\* x as u32 without round(): the fraction is dropped.
F64TruncAsU32(x) ==
    LET k == F64_MANTISSA_BITS + x.e IN
    IF k < 0 THEN 0 ELSE IntOf(SubSeq(x.m, 1, k))

\* calculate_contain_dimensions without the round() before the cast.
calculate_contain_dimensions_truncating(src_w, src_h, target_w, target_h) ==
    IF IsSome(target_w) /\ IsSome(target_h) THEN
        <<Max(F64TruncAsU32(F64MulInt(src_w,
                  F64Min(F64Div(Unwrap(target_w), src_w),
                         F64Div(Unwrap(target_h), src_h)))), 1),
          Max(F64TruncAsU32(F64MulInt(src_h,
                  F64Min(F64Div(Unwrap(target_w), src_w),
                         F64Div(Unwrap(target_h), src_h)))), 1)>>
    ELSE IF IsSome(target_w) THEN
        <<Unwrap(target_w),
          Max(F64TruncAsU32(F64MulInt(src_h, F64Div(Unwrap(target_w), src_w))), 1)>>
    ELSE IF IsSome(target_h) THEN
        <<Max(F64TruncAsU32(F64MulInt(src_w, F64Div(Unwrap(target_h), src_h))), 1),
          Unwrap(target_h)>>
    ELSE <<src_w, src_h>>

\* transform.rs calculate_contain_dimensions
calculate_contain_dimensions(src_w, src_h, target_w, target_h) ==
    IF IsSome(target_w) /\ IsSome(target_h) THEN
        LET w == Unwrap(target_w)
            h == Unwrap(target_h)
            scale_w == F64Div(w, src_w)
            scale_h == F64Div(h, src_h)
            scale == F64Min(scale_w, scale_h)
            new_w == F64RoundAsU32(F64MulInt(src_w, scale))
            new_h == F64RoundAsU32(F64MulInt(src_h, scale))
        IN <<Max(new_w, 1), Max(new_h, 1)>>
    ELSE IF IsSome(target_w) THEN
        LET w == Unwrap(target_w)
            scale == F64Div(w, src_w)
            new_h == F64RoundAsU32(F64MulInt(src_h, scale))
        IN <<w, Max(new_h, 1)>>
    ELSE IF IsSome(target_h) THEN
        LET h == Unwrap(target_h)
            scale == F64Div(h, src_h)
            new_w == F64RoundAsU32(F64MulInt(src_w, scale))
        IN <<Max(new_w, 1), h>>
    ELSE <<src_w, src_h>>

(***************************************************************************)
(* transform.rs: parameters, formats, the checks.                          *)
(***************************************************************************)
\* OutputFormat
OutputFormats == {"Jpeg", "Png", "WebP", "Avif"}

\* TransformParams::needs_transform
needs_transform(params) ==
    IsSome(params.width) \/ IsSome(params.height)
        \/ IsSome(params.format) \/ IsSome(params.quality)

\* str::to_lowercase on the format strings of this model.
to_lowercase(s) ==
    CASE s = "JPG" -> "jpg"
      [] s = "Jpeg" -> "jpeg"
      [] s = "PNG" -> "png"
      [] s = "WebP" -> "webp"
      [] s = "AVIF" -> "avif"
      [] OTHER -> s

\* OutputFormat::from_str_param
from_str_param(s) ==
    LET l == to_lowercase(s) IN
    IF l \in {"jpg", "jpeg"} THEN Some("Jpeg")
    ELSE IF l = "png" THEN Some("Png")
    ELSE IF l = "webp" THEN Some("WebP")
    ELSE IF l = "avif" THEN Some("Avif")
    ELSE None

\* OutputFormat::content_type
content_type(format) ==
    CASE format = "Jpeg" -> "image/jpeg"
      [] format = "Png" -> "image/png"
      [] format = "WebP" -> "image/webp"
      [] format = "Avif" -> "image/avif"

\* A Result<(), TransformError> or Result<(), AppError>: the error's message.
Ok == [ok |-> TRUE, msg |-> ""]
Err(m) == [ok |-> FALSE, msg |-> m]

\* transform.rs validate_params: the first failing check decides the message.
validate_params(params) ==
    IF IsSome(params.quality)
       /\ (Unwrap(params.quality) = 0 \/ Unwrap(params.quality) > 100)
    THEN Err("quality must be 1-100, got " \o ToString(Unwrap(params.quality)))
    ELSE IF IsSome(params.width)
       /\ (Unwrap(params.width) = 0 \/ Unwrap(params.width) > MAX_DIMENSION)
    THEN Err("width must be 1-" \o ToString(MAX_DIMENSION) \o ", got "
                 \o ToString(Unwrap(params.width)))
    ELSE IF IsSome(params.height)
       /\ (Unwrap(params.height) = 0 \/ Unwrap(params.height) > MAX_DIMENSION)
    THEN Err("height must be 1-" \o ToString(MAX_DIMENSION) \o ", got "
                 \o ToString(Unwrap(params.height)))
    ELSE Ok

\* validate_source_dimensions with the limit itself refused (>= for >).
validate_source_dimensions_below(width, height) ==
    ~(width * height >= MAX_PIXELS)

\* transform.rs validate_source_dimensions: TRUE when the source passes.
\* width as u64 * height as u64 cannot overflow.
validate_source_dimensions(width, height) ==
    ~(width * height > MAX_PIXELS)

\* validate_output_dimensions refusing only when both sides are too long
\* (&& for ||).
validate_output_dimensions_both(width, height) ==
    ~(width > MAX_DIMENSION /\ height > MAX_DIMENSION)

\* transform.rs validate_output_dimensions: TRUE when the output passes.
validate_output_dimensions(width, height) ==
    ~(width > MAX_DIMENSION \/ height > MAX_DIMENSION)

\* determine_output_format with a supported source format ahead of the
\* requested one.
determine_output_format_source_first(source_format, requested_format) ==
    IF IsSome(source_format) /\ Unwrap(source_format) \in OutputFormats
    THEN Unwrap(source_format)
    ELSE IF IsSome(requested_format) THEN Unwrap(requested_format)
    ELSE "Jpeg"

\* transform.rs determine_output_format; source_format is an
\* Option<ImageFormat>, requested_format an Option<OutputFormat>.
determine_output_format(source_format, requested_format) ==
    IF IsSome(requested_format) THEN Unwrap(requested_format)
    ELSE IF IsSome(source_format) /\ Unwrap(source_format) \in OutputFormats
         THEN Unwrap(source_format)
    ELSE "Jpeg"

(***************************************************************************)
(* The image codec (the image and fast_image_resize crates) is outside the *)
(* repository: codec is what it does with this request's object,           *)
(*   decode |-> [ok, detail, w, h, format]   (format: Option<ImageFormat>) *)
(*   resize |-> [ok, at, detail]             (at: which step of            *)
(*                                            resize_image failed)         *)
(*   encode |-> [ok, detail, bytes].                                       *)
(***************************************************************************)
EmptyBytes == [head |-> <<>>, len |-> 0]

\* What transform::transform did: the codec calls it made, in order, the stage
\* that failed (failedAt, "" for none), the TransformError (err, msg, and
\* errDims for ResolutionTooLarge), and what it computed on the way.
NoRun ==
    [ran |-> FALSE, calls |-> <<>>, failedAt |-> "", err |-> "", msg |-> "",
     errDims |-> <<0, 0>>, src |-> <<0, 0>>, source_format |-> None,
     dst |-> <<0, 0>>, output_format |-> "", quality |-> 0,
     out |-> EmptyBytes, content_type |-> ""]

Fail(r, stage, err, msg) ==
    [r EXCEPT !.failedAt = stage, !.err = err, !.msg = msg]

FailResolution(r, stage, width, height) ==
    [r EXCEPT !.failedAt = stage, !.err = "ResolutionTooLarge",
              !.errDims = <<width, height>>]

\* transform.rs resize_image: the message of its error.
resize_error(resize) ==
    CASE resize.at = "source" -> "failed to create source image: " \o resize.detail
      [] resize.at = "resize" -> "resize failed: " \o resize.detail
      [] resize.at = "buffer" -> "failed to create output image buffer"

\* transform.rs encode_image: the message of its error.
encode_error(format, detail) ==
    CASE format = "Jpeg" -> "JPEG encode failed: " \o detail
      [] format = "Png" -> "PNG encode failed: " \o detail
      [] format = "WebP" -> "WebP encode failed: " \o detail
      [] format = "Avif" -> "AVIF encode failed: " \o detail

\* The quality with only PNG refusing a supplied value: WebP forgotten.
effective_quality_png_only(output_format, quality) ==
    IF output_format = "Png" /\ IsSome(quality)
    THEN [ok |-> FALSE, quality |-> 0,
          msg |-> "quality parameter is not supported for "
                      \o output_format \o " (lossless only)"]
    ELSE [ok |-> TRUE, msg |-> "",
          quality |-> IF IsSome(quality) THEN Unwrap(quality) ELSE DEFAULT_QUALITY]

\* transform.rs transform, lines 98-112: the quality the encoder is given, or
\* the InvalidParams error.
effective_quality(output_format, quality) ==
    IF output_format \in {"Png", "WebP"}
    THEN IF IsSome(quality)
         THEN [ok |-> FALSE, quality |-> 0,
               msg |-> "quality parameter is not supported for "
                           \o output_format \o " (lossless only)"]
         ELSE [ok |-> TRUE, quality |-> DEFAULT_QUALITY, msg |-> ""]
    ELSE [ok |-> TRUE, msg |-> "",
          quality |-> IF IsSome(quality) THEN Unwrap(quality) ELSE DEFAULT_QUALITY]

\* A run that has made one more call into the codec.
called(r, what) == [r EXCEPT !.calls = Append(@, what)]

\* transform.rs transform, lines 114-117: encode_image and the result.
transform_encode(codec, r, output_format, q) ==
    IF ~q.ok THEN Fail(r, "quality", "InvalidParams", q.msg)
    ELSE IF ~codec.encode.ok
    THEN Fail([called(r, "encode") EXCEPT !.quality = q.quality],
              "encode_image", "ProcessingFailed",
              encode_error(output_format, codec.encode.detail))
    ELSE [called(r, "encode") EXCEPT !.quality = q.quality,
                                     !.out = codec.encode.bytes,
                                     !.content_type = content_type(output_format)]

\* transform.rs transform, lines 98-112: the output format and the quality.
transform_format(params, codec, r, output_format) ==
    transform_encode(codec, [r EXCEPT !.output_format = output_format],
                     output_format,
                     effective_quality(output_format, params.quality))

\* transform.rs transform, lines 92-96: resize_image when a side changes.
transform_resize(params, codec, r, resizing) ==
    IF resizing /\ ~codec.resize.ok
    THEN Fail(called(r, "resize"), "resize_image", "ProcessingFailed",
              resize_error(codec.resize))
    ELSE transform_format(params, codec,
                          IF resizing THEN called(r, "resize") ELSE r,
                          determine_output_format(r.source_format, params.format))

\* transform.rs transform, lines 89-90: the resolved dimensions and their check.
transform_output(params, codec, r, dst) ==
    IF ~validate_output_dimensions(dst[1], dst[2])
    THEN FailResolution([r EXCEPT !.dst = dst], "validate_output_dimensions",
                        dst[1], dst[2])
    ELSE transform_resize(params, codec, [r EXCEPT !.dst = dst],
                          dst[1] # r.src[1] \/ dst[2] # r.src[2])

\* transform.rs transform, lines 85-89: the check of the source dimensions.
transform_source(params, codec, r) ==
    IF ~validate_source_dimensions(r.src[1], r.src[2])
    THEN FailResolution(r, "validate_source_dimensions", r.src[1], r.src[2])
    ELSE transform_output(params, codec, r,
                          calculate_contain_dimensions(r.src[1], r.src[2],
                                                       params.width, params.height))

\* transform.rs transform, line 84: decode_image.
transform_decode(params, codec, r) ==
    IF ~codec.decode.ok
    THEN Fail(called(r, "decode"), "decode_image", "ProcessingFailed",
              "decode failed: " \o codec.decode.detail)
    ELSE transform_source(params, codec,
                          [called(r, "decode") EXCEPT
                               !.src = <<codec.decode.w, codec.decode.h>>,
                               !.source_format = codec.decode.format])

\* transform with decode_image ahead of validate_params.
transform_checked_late(params, codec, r, vp) ==
    IF ~codec.decode.ok
    THEN Fail(called(r, "decode"), "decode_image", "ProcessingFailed",
              "decode failed: " \o codec.decode.detail)
    ELSE IF ~vp.ok
    THEN Fail(called(r, "decode"), "validate_params", "InvalidParams", vp.msg)
    ELSE transform_decode(params, codec, r)

\* transform.rs transform, line 82: validate_params.
transform_checked(params, codec, r, vp) ==
    IF ~vp.ok THEN Fail(r, "validate_params", "InvalidParams", vp.msg)
    ELSE transform_decode(params, codec, r)

\* transform.rs transform
transform(params, codec) ==
    transform_checked(params, codec, [NoRun EXCEPT !.ran = TRUE],
                      validate_params(params))

(***************************************************************************)
(* handler.rs: the key, the content type of a passthrough, the errors.     *)
(***************************************************************************)
\* The value of an ASCII hex digit, -1 for any other byte.
from_hex_digit(c) ==
    IF c \in 48..57 THEN c - 48
    ELSE IF c \in 65..70 THEN c - 55
    ELSE IF c \in 97..102 THEN c - 87
    ELSE -1

\* urlencoding::decode_binary, which validate_key calls through
\* urlencoding::decode: %XX with two hex digits is one byte; a '%' that no two
\* hex digits follow stays as it is.  37 is '%'.  An escape starts at i when
\* data[i] is '%' and two hex digits follow it; the digits of an escape are no
\* '%', so no escape starts inside another.
escape_at(data, i) ==
    /\ i >= 1
    /\ i + 2 <= Len(data)
    /\ data[i] = 37
    /\ from_hex_digit(data[i + 1]) >= 0
    /\ from_hex_digit(data[i + 2]) >= 0

\* The bytes that the byte at i of data decodes to.
decoded_at(data, i) ==
    IF escape_at(data, i)
    THEN <<16 * from_hex_digit(data[i + 1]) + from_hex_digit(data[i + 2])>>
    ELSE IF escape_at(data, i - 1) \/ escape_at(data, i - 2) THEN <<>>
    ELSE <<data[i]>>

RECURSIVE decode_range(_, _, _)
decode_range(data, lo, hi) ==
    IF lo > hi THEN <<>>
    ELSE IF lo = hi THEN decoded_at(data, lo)
    ELSE decode_range(data, lo, (lo + hi) \div 2)
             \o decode_range(data, (lo + hi) \div 2 + 1, hi)

decode_binary(data) == decode_range(data, 1, Len(data))

\* String::from_utf8 on the decoded bytes.  The keys of this model decode to
\* ASCII bytes and to the bytes 0xAA and 0xFF, which stand in no UTF-8 text.
from_utf8_ok(bytes) == \A i \in 1..Len(bytes) : bytes[i] < 128

\* char::is_alphanumeric, on ASCII.
is_alphanumeric(c) == c \in 48..57 \/ c \in 65..90 \/ c \in 97..122

\* str::contains and str::starts_with, on byte strings.
contains(s, pat) ==
    \E i \in 1..(Len(s) - Len(pat) + 1) : SubSeq(s, i, i + Len(pat) - 1) = pat

starts_with(s, pat) ==
    Len(s) >= Len(pat) /\ SubSeq(s, 1, Len(pat)) = pat

\* validate_key with the traversal patterns looked for in the key as it came,
\* not in its decoded value: the variant the requirement on encoded keys rules out.
validate_key_raw(key) ==
    IF key = <<>> THEN Err("key parameter is required")
    ELSE IF Len(key) > MAX_KEY_LEN THEN Err("key parameter too long (max: 1024)")
    ELSE IF ~from_utf8_ok(decode_binary(key)) THEN Err("invalid URL encoding")
    ELSE IF ~(\A i \in 1..Len(decode_binary(key)) :
                 is_alphanumeric(decode_binary(key)[i])
                     \/ decode_binary(key)[i] \in {47, 45, 95, 46})
    THEN Err("key contains invalid characters")
    ELSE IF \/ contains(key, <<46, 46>>)
            \/ starts_with(key, <<47>>)
            \/ contains(key, <<47, 47>>)
            \/ contains(key, <<92>>)
    THEN Err("invalid key: path traversal detected")
    ELSE Ok

\* handler.rs validate_key.  47 '/', 45 '-', 95 '_', 46 '.', 92 '\'.
validate_key(key) ==
    LET decoded == decode_binary(key) IN
    IF key = <<>> THEN Err("key parameter is required")
    ELSE IF Len(key) > MAX_KEY_LEN THEN Err("key parameter too long (max: 1024)")
    ELSE IF ~from_utf8_ok(decoded) THEN Err("invalid URL encoding")
    ELSE IF ~(\A i \in 1..Len(decoded) :
                 is_alphanumeric(decoded[i]) \/ decoded[i] \in {47, 45, 95, 46})
    THEN Err("key contains invalid characters")
    ELSE IF \/ contains(decoded, <<46, 46>>)
            \/ starts_with(decoded, <<47>>)
            \/ contains(decoded, <<47, 47>>)
            \/ contains(decoded, <<92>>)
    THEN Err("invalid key: path traversal detected")
    ELSE Ok

\* <[u8]>::starts_with on a body, and the slice data[from..to] (from, to
\* counted from 0 as in the code, to <= 12).
data_starts_with(data, pat) ==
    data.len >= Len(pat) /\ SubSeq(data.head, 1, Len(pat)) = pat

data_slice(data, from, to) == SubSeq(data.head, from + 1, to)

\* infer_content_type taking every RIFF container for WebP.
infer_content_type_riff(data) ==
    IF data_starts_with(data, <<255, 216, 255>>) THEN "image/jpeg"
    ELSE IF data_starts_with(data, <<137, 80, 78, 71>>) THEN "image/png"
    ELSE IF data.len >= 12 /\ data_starts_with(data, <<82, 73, 70, 70>>)
    THEN "image/webp"
    ELSE IF data.len >= 12
            /\ data_slice(data, 4, 12) = <<102, 116, 121, 112, 97, 118, 105, 102>>
    THEN "image/avif"
    ELSE "application/octet-stream"

\* handler.rs infer_content_type.  "RIFF" is 82 73 70 70, "WEBP" 87 69 66 80,
\* "ftypavif" 102 116 121 112 97 118 105 102.
infer_content_type(data) ==
    IF data_starts_with(data, <<255, 216, 255>>) THEN "image/jpeg"
    ELSE IF data_starts_with(data, <<137, 80, 78, 71>>) THEN "image/png"
    ELSE IF data.len >= 12 /\ data_starts_with(data, <<82, 73, 70, 70>>)
            /\ data_slice(data, 8, 12) = <<87, 69, 66, 80>>
    THEN "image/webp"
    ELSE IF data.len >= 12
            /\ data_slice(data, 4, 12) = <<102, 116, 121, 112, 97, 118, 105, 102>>
    THEN "image/avif"
    ELSE "application/octet-stream"

\* AppError
AppError(variant, msg) == [variant |-> variant, msg |-> msg]

\* impl From<StorageError> for AppError
FromStorageError(err) ==
    CASE err.kind = "NotFound" -> AppError("NotFound", "object not found")
      [] err.kind = "TooLarge" ->
            AppError("BadRequest",
                     "object too large: " \o ToString(err.size) \o " bytes (max: "
                         \o ToString(err.max) \o " bytes)")
      [] err.kind = "Internal" -> AppError("Internal", "storage error")

\* impl From<TransformError> for AppError
FromTransformError(r) ==
    CASE r.err = "InvalidParams" -> AppError("BadRequest", r.msg)
      [] r.err = "ResolutionTooLarge" ->
            AppError("BadRequest",
                     "image resolution " \o ToString(r.errDims[1]) \o "x"
                         \o ToString(r.errDims[2]) \o " exceeds maximum 4096x4096")
      [] r.err = "ProcessingFailed" -> AppError("TransformFailed", r.msg)

\* A response: the status, the content type, the "error" message of a JSON
\* error body (msg), the bytes of an image body, the Cache-Control header.
NoResponse ==
    [status |-> 0, error |-> "", content_type |-> "", msg |-> "",
     body |-> EmptyBytes, cache_control |-> ""]

\* impl IntoResponse for AppError
into_response(e) ==
    LET status == CASE e.variant = "BadRequest" -> 400
                    [] e.variant = "NotFound" -> 404
                    [] e.variant = "TransformFailed" -> 422
                    [] e.variant = "Internal" -> 500
        message == IF e.variant = "Internal" THEN "internal server error" ELSE e.msg
    IN [NoResponse EXCEPT !.status = status, !.error = e.variant,
                          !.content_type = "application/json", !.msg = message]

\* The handler's Ok(...) response.
ok_response(ctype, bytes) ==
    [NoResponse EXCEPT !.status = 200, !.content_type = ctype, !.body = bytes,
                       !.cache_control = CACHE_CONTROL_IMMUTABLE]

\* Query<TransformQuery>: w and h are u32, q is u8; axum answers 400 itself,
\* before the handler runs, when a value does not parse.  (No integer of this
\* model exceeds u32::MAX.)
query_parses(query) ==
    /\ IsSome(query.w) => Unwrap(query.w) >= 0
    /\ IsSome(query.h) => Unwrap(query.h) >= 0
    /\ IsSome(query.q) => Unwrap(query.q) \in 0..255

query_rejection ==
    [NoResponse EXCEPT !.status = 400, !.error = "QueryRejection",
                       !.content_type = "text/plain",
                       !.msg = "Failed to deserialize query string"]

\* handler.rs transform, lines 35-52: the TransformParams of a request whose
\* format parses.
params_of(query) ==
    [width |-> query.w, height |-> query.h,
     format |-> IF IsSome(query.f) THEN from_str_param(Unwrap(query.f)) ELSE None,
     quality |-> query.q]

format_parses(query) ==
    IsSome(query.f) => IsSome(from_str_param(Unwrap(query.f)))

(***************************************************************************)
(* storage.rs: R2Client::get_object, in its two awaits.  The store is      *)
(* outside the repository: send is what it answers to the GetObject        *)
(* request ([kind |-> "ok" | "no_such_key" | "error", detail,              *)
(* content_length: Option<i64>]), body what reading the body gives         *)
(* ([ok, detail, bytes]).                                                  *)
(***************************************************************************)
StorageError(kind, key, size, msg) ==
    [kind |-> kind, key |-> key, size |-> size, max |-> MAX_INPUT_SIZE, msg |-> msg]

\* get_object, lines 74-100: the error it returns before reading the body,
\* or None.
get_object_send(key, send) ==
    IF send.kind = "no_such_key" THEN Some(StorageError("NotFound", key, 0, ""))
    ELSE IF send.kind = "error" THEN Some(StorageError("Internal", key, 0, send.detail))
    ELSE IF /\ IsSome(send.content_length)
            /\ Unwrap(send.content_length) > 0
            /\ Unwrap(send.content_length) > MAX_INPUT_SIZE
    THEN Some(StorageError("TooLarge", key, Unwrap(send.content_length), ""))
    ELSE None

\* get_object without the check of the length that was read.
get_object_body_unchecked(key, body) ==
    IF ~body.ok THEN Some(StorageError("Internal", key, 0, body.detail))
    ELSE None

\* get_object, lines 102-118: the error it returns once the body is read, or
\* None (and then it returns the body).
get_object_body(key, body) ==
    IF ~body.ok THEN Some(StorageError("Internal", key, 0, body.detail))
    ELSE IF body.bytes.len > MAX_INPUT_SIZE
    THEN Some(StorageError("TooLarge", key, body.bytes.len, ""))
    ELSE None

(***************************************************************************)
(* handler.rs transform, one action to each await.                         *)
(***************************************************************************)
Respond(r, response) ==
    /\ resp' = [resp EXCEPT ![r] = response]
    /\ pc' = [pc EXCEPT ![r] = "done"]

\* Lines 28-55, to the send of get_object: the extractors, validate_key, the
\* format, and the GetObject request.
Start(r) ==
    /\ pc[r] = "received"
    /\ LET vk == validate_key(req[r].key) IN
       IF ~query_parses(req[r].query)
       THEN Respond(r, query_rejection) /\ UNCHANGED fetches
       ELSE IF ~vk.ok
       THEN Respond(r, into_response(AppError("BadRequest", vk.msg)))
            /\ UNCHANGED fetches
       ELSE IF ~format_parses(req[r].query)
       THEN Respond(r, into_response(AppError("BadRequest",
                        "unsupported format '" \o Unwrap(req[r].query.f)
                            \o "'. supported: jpg, png, webp, avif")))
            /\ UNCHANGED fetches
       ELSE /\ fetches' = [fetches EXCEPT ![r] = @ + 1]
            /\ pc' = [pc EXCEPT ![r] = "await_send"]
            /\ UNCHANGED resp
    /\ UNCHANGED <<req, bodyReads, input, run>>

\* The store answers: get_object checks the reported length and starts
\* reading the body, or fails.
SendCompletes(r) ==
    /\ pc[r] = "await_send"
    /\ LET e == get_object_send(req[r].key, req[r].send) IN
       IF IsSome(e)
       THEN Respond(r, into_response(FromStorageError(Unwrap(e))))
            /\ UNCHANGED bodyReads
       ELSE /\ bodyReads' = [bodyReads EXCEPT ![r] = @ + 1]
            /\ pc' = [pc EXCEPT ![r] = "await_body"]
            /\ UNCHANGED resp
    /\ UNCHANGED <<req, fetches, input, run>>

\* handler.rs transform, lines 75-87: the response of a transformed image.
Transformed(r, t) ==
    /\ run' = [run EXCEPT ![r] = t]
    /\ Respond(r, IF t.err = ""
                  THEN ok_response(t.content_type, t.out)
                  ELSE into_response(FromTransformError(t)))

\* handler.rs transform, lines 62-87: the body is read; passthrough or transform.
Fetched(r, input_bytes, params) ==
    /\ input' = [input EXCEPT ![r] = Some(input_bytes)]
    /\ IF ~needs_transform(params)
       THEN Respond(r, ok_response(infer_content_type(input_bytes), input_bytes))
            /\ UNCHANGED run
       ELSE Transformed(r, transform(params, req[r].codec))

\* storage.rs get_object, lines 101-118, then handler.rs transform, lines 62-87.
BodyReturns(r, e) ==
    IF IsSome(e)
    THEN Respond(r, into_response(FromStorageError(Unwrap(e))))
         /\ UNCHANGED <<input, run>>
    ELSE Fetched(r, req[r].body.bytes, params_of(req[r].query))

\* The body is read: get_object returns, and the handler runs to its end
\* (lines 55-90): the passthrough, or transform::transform.
BodyCompletes(r) ==
    /\ pc[r] = "await_body"
    /\ BodyReturns(r, get_object_body(req[r].key, req[r].body))
    /\ UNCHANGED <<req, fetches, bodyReads>>

Next == \E r \in Reqs : Start(r) \/ SendCompletes(r) \/ BodyCompletes(r)

(***************************************************************************)
(* The requests and the worlds they meet.                                  *)
(***************************************************************************)
Min(a, b) == IF a <= b THEN a ELSE b

\* A body of len bytes that starts with head.
Bytes(head, len) == [head |-> SubSeq(head, 1, Min(len, Len(head))), len |-> len]

JpegHead == <<255, 216, 255, 224, 0, 16, 74, 70, 73, 70, 0, 1>>
PngHead == <<137, 80, 78, 71, 13, 10, 26, 10, 0, 0, 0, 13>>
WebpHead == <<82, 73, 70, 70, 36, 8, 0, 0, 87, 69, 66, 80>>
WaveHead == <<82, 73, 70, 70, 36, 8, 0, 0, 87, 65, 86, 69>>
AvifHead == <<0, 0, 0, 28, 102, 116, 121, 112, 97, 118, 105, 102>>
HeicHead == <<0, 0, 0, 24, 102, 116, 121, 112, 104, 101, 105, 99>>
GifHead == <<71, 73, 70, 56, 57, 97, 100, 0, 100, 0, 247, 0>>

HeadOf(format) ==
    CASE format = "Jpeg" -> JpegHead
      [] format = "Png" -> PngHead
      [] format = "WebP" -> WebpHead
      [] format = "Avif" -> AvifHead

\* Error texts of the store's client, and of the codec.
StoreDetails == {"connection reset by peer (10.0.3.7:9000)", "dispatch failure: timeout"}
CodecDetails == {"unexpected end of file", "invalid PNG signature"}

DecodeOk(w, h, format) ==
    [ok |-> TRUE, detail |-> "", w |-> w, h |-> h, format |-> format]
DecodeErr(detail) ==
    [ok |-> FALSE, detail |-> detail, w |-> 0, h |-> 0, format |-> None]
ResizeOk == [ok |-> TRUE, at |-> "", detail |-> ""]
ResizeErr(at, detail) == [ok |-> FALSE, at |-> at, detail |-> detail]
EncodeOk == [ok |-> TRUE, detail |-> "", bytes |-> Bytes(<<>>, 1500)]
EncodeErr(detail) == [ok |-> FALSE, detail |-> detail, bytes |-> EmptyBytes]
Codec(decode, resize, encode) ==
    [decode |-> decode, resize |-> resize, encode |-> encode]

SendOk(content_length) ==
    [kind |-> "ok", detail |-> "", content_length |-> content_length]
SendNoSuchKey == [kind |-> "no_such_key", detail |-> "", content_length |-> None]
SendErr(detail) == [kind |-> "error", detail |-> detail, content_length |-> None]
BodyOk(bytes) == [ok |-> TRUE, detail |-> "", bytes |-> bytes]
BodyErr(detail) == [ok |-> FALSE, detail |-> detail, bytes |-> EmptyBytes]

Query(w, h, f, q) == [w |-> w, h |-> h, f |-> f, q |-> q]
NoQuery == Query(None, None, None, None)

Request(key, query, send, body, codec) ==
    [active |-> TRUE, key |-> key, query |-> query, send |-> send,
     body |-> body, codec |-> codec]

\* A slot no request has arrived in.
Absent ==
    [active |-> FALSE, key |-> <<>>, query |-> NoQuery, send |-> SendNoSuchKey,
     body |-> BodyErr(""), codec |-> Codec(DecodeErr(""), ResizeOk, EncodeOk)]

\* An object of the store: its bytes, and what the decoder makes of them.
Object(bytes, decode) == [bytes |-> bytes, decode |-> decode]

\* "a/b.jpg"
GoodKey == <<97, 47, 98, 46, 106, 112, 103>>

\* A 100x100 JPEG of 2000 bytes.
JpegObject == Object(Bytes(JpegHead, 2000), DecodeOk(100, 100, Some("Jpeg")))

\* The request for an object the store serves whole, the codec working.
Served(key, query, object) ==
    Request(key, query, SendOk(Some(object.bytes.len)), BodyOk(object.bytes),
            Codec(object.decode, ResizeOk, EncodeOk))

\* Keys: up to MaxKeyTokens of these pieces in a row.
\* "a" "." "/" "\" "-" "%" "%2e" "%2E" "%2f" "%5c" "%ff"
KeyTokens ==
    {<<97>>, <<46>>, <<47>>, <<92>>, <<45>>, <<37>>, <<37, 50, 101>>,
     <<37, 50, 69>>, <<37, 50, 102>>, <<37, 53, 99>>, <<37, 102, 102>>}

RECURSIVE KeysOfTokens(_)
KeysOfTokens(n) ==
    IF n = 0 THEN {<<>>}
    ELSE {t \o k : t \in KeyTokens, k \in KeysOfTokens(n - 1)}

\* and the keys "aaa...a" around the length limit.
Keys ==
    UNION {KeysOfTokens(n) : n \in 0..MaxKeyTokens}
        \cup {[i \in 1..n |-> 97] : n \in {MAX_KEY_LEN, MAX_KEY_LEN + 1}}

KeyFamily ==
    {Served(k, q, JpegObject) : k \in Keys, q \in {NoQuery, Query(Some(10), None, None, None)}}

\* Queries in and out of range, on an object that is served.
ParamScenarios ==
    {Served(GoodKey, Query(w, h, f, q), JpegObject) :
        w \in {None, Some(0), Some(1), Some(4096), Some(4097), Some(-1)},
        h \in {None, Some(0), Some(4096), Some(4097)},
        f \in {None, Some("png"), Some("gif")},
        q \in {None, Some(0), Some(1), Some(100), Some(101), Some(255), Some(256)}}

Objects ==
    {Object(Bytes(JpegHead, n), DecodeOk(100, 100, Some("Jpeg"))) :
        n \in {12, 2000, MAX_INPUT_SIZE - 1, MAX_INPUT_SIZE, MAX_INPUT_SIZE + 1,
               2 * MAX_INPUT_SIZE}}
    \cup {Object(Bytes(PngHead, n), DecodeOk(100, 100, Some("Png"))) : n \in {12, 2000}}
    \cup {Object(Bytes(WebpHead, n), DecodeOk(100, 100, Some("WebP"))) : n \in {12, 2000}}
    \cup {Object(Bytes(AvifHead, n), DecodeOk(100, 100, Some("Avif"))) : n \in {12, 2000}}
    \cup {Object(Bytes(GifHead, 2000), DecodeOk(100, 100, Some("Gif")))}
    \cup {Object(Bytes(h, n), DecodeErr("unsupported image format")) :
            h \in {WaveHead, HeicHead}, n \in {12, 2000}}
    \cup {Object(Bytes(h, n), DecodeErr("unexpected end of file")) :
            h \in {JpegHead, PngHead, WebpHead, AvifHead}, n \in {0, 2, 3, 4, 11}}

\* What the store may answer, whatever the object: the reported length need
\* not be the body's.
StoreScenarios ==
    {Request(GoodKey, q, s,
             IF broken THEN BodyErr("connection reset by peer (10.0.3.7:9000)")
             ELSE BodyOk(o.bytes),
             Codec(o.decode, ResizeOk, EncodeOk)) :
        q \in {NoQuery, Query(Some(10), None, None, None)},
        s \in {SendNoSuchKey} \cup {SendErr(d) : d \in StoreDetails}
               \cup {SendOk(c) : c \in {None, Some(-1), Some(0), Some(12), Some(2000),
                                        Some(MAX_INPUT_SIZE), Some(MAX_INPUT_SIZE + 1)}},
        broken \in BOOLEAN,
        o \in Objects}

\* Sources of every size against requested sizes.
SourceSizes ==
    {<<1, 1>>, <<6, 27>>, <<100, 100>>, <<1000, 500>>, <<4096, 4096>>,
     <<4097, 4096>>, <<5000, 5000>>, <<8192, 2048>>, <<8192, 2049>>,
     <<8192, 1>>, <<1, 8192>>, <<16384, 1024>>}

TargetSizes == {None, Some(1), Some(10), Some(13), Some(200), Some(4096)}

DimScenarios ==
    {Served(GoodKey, Query(w, h, f, None),
            Object(Bytes(JpegHead, 2000), DecodeOk(s[1], s[2], Some("Jpeg")))) :
        s \in SourceSizes, w \in TargetSizes, h \in TargetSizes,
        f \in {None, Some("png")}}

\* Small sources against small targets: scaled sides on and off the half.
FitSides == {1, 3, 6, 10, 11, 27}
FitTargets == {None, Some(1), Some(8), Some(13), Some(23)}

FitScenarios ==
    {Served(GoodKey, Query(w, h, Some("jpg"), None),
            Object(Bytes(JpegHead, 2000), DecodeOk(sw, sh, Some("Jpeg")))) :
        sw \in FitSides, sh \in FitSides, w \in FitTargets, h \in FitTargets}

\* Source formats against requested formats and qualities.
SourceFormats ==
    {None, Some("Jpeg"), Some("Png"), Some("WebP"), Some("Avif"), Some("Gif"),
     Some("Bmp")}

FormatScenarios ==
    {Served(GoodKey, Query(w, None, f, q),
            Object(Bytes(JpegHead, 2000), DecodeOk(100, 100, sf))) :
        sf \in SourceFormats,
        w \in {None, Some(50)},
        f \in {None, Some("jpg"), Some("jpeg"), Some("JPG"), Some("png"),
               Some("PNG"), Some("webp"), Some("avif"), Some("gif"), Some("")},
        q \in {None, Some(0), Some(1), Some(80), Some(100), Some(101)}}

\* The codec failing at each of its steps.
FailingCodecs ==
    {Codec(DecodeErr(d), ResizeOk, EncodeOk) : d \in CodecDetails}
    \cup {Codec(DecodeOk(100, 100, Some("Jpeg")), ResizeErr(at, d), EncodeOk) :
            at \in {"source", "resize", "buffer"}, d \in CodecDetails}
    \cup {Codec(DecodeOk(100, 100, Some("Jpeg")), ResizeOk, EncodeErr(d)) :
            d \in CodecDetails}
    \cup {Codec(DecodeOk(5000, 5000, Some("Jpeg")), ResizeOk, EncodeErr(d)) :
            d \in CodecDetails}

CodecScenarios ==
    {Request(GoodKey, Query(Some(50), None, f, q), SendOk(Some(2000)),
             BodyOk(Bytes(JpegHead, 2000)), c) :
        f \in {None, Some("png"), Some("webp"), Some("avif")},
        q \in {None, Some(0), Some(90)},
        c \in FailingCodecs}

\* Requests that fail, and one that does not.
FailureScenarios ==
    {Request(GoodKey, Query(Some(50), None, None, None), s, BodyOk(Bytes(JpegHead, 2000)),
             Codec(DecodeOk(100, 100, Some("Jpeg")), ResizeOk, EncodeOk)) :
        s \in {SendOk(None)} \cup {SendErr(d) : d \in StoreDetails}}
    \cup {Request(GoodKey, Query(Some(50), None, None, None), SendOk(None), BodyErr(d),
                  Codec(DecodeOk(100, 100, Some("Jpeg")), ResizeOk, EncodeOk)) :
            d \in StoreDetails}
    \cup {Request(GoodKey, Query(Some(50), None, None, None), SendOk(None),
                  BodyOk(Bytes(JpegHead, 2000)), c) :
            c \in FailingCodecs}

InitRequests(reqs) ==
    /\ req = reqs
    /\ pc = [r \in Reqs |-> IF reqs[r].active THEN "received" ELSE "absent"]
    /\ fetches = [r \in Reqs |-> 0]
    /\ bodyReads = [r \in Reqs |-> 0]
    /\ input = [r \in Reqs |-> None]
    /\ run = [r \in Reqs |-> NoRun]
    /\ resp = [r \in Reqs |-> NoResponse]

\* One request, the other slots empty.
InitOne(family) ==
    \E s \in family : InitRequests([r \in Reqs |-> IF r = 1 THEN s ELSE Absent])

\* The handler against the store: queries in and out of range, and whatever
\* the store answers.
Init == InitOne(ParamScenarios \cup StoreScenarios)
Spec == Init /\ [][Next]_vars

\* The handler against keys.
InitKey == InitOne(KeyFamily)
SpecKey == InitKey /\ [][Next]_vars

\* The pipeline: sizes, formats, qualities, a failing codec.
InitPipe ==
    InitOne(DimScenarios \cup FitScenarios \cup FormatScenarios \cup CodecScenarios)
SpecPipe == InitPipe /\ [][Next]_vars

\* Several requests, failing or not.
InitFailures == \E reqs \in [Reqs -> FailureScenarios] : InitRequests(reqs)
SpecFailures == InitFailures /\ [][Next]_vars

(***************************************************************************)
(* The runtime.  #[tokio::main] starts a runtime whose worker threads both *)
(* drive the network I/O and poll the handlers' tasks (one worker per core *)
(* by default; NumWorkers here).  handler.rs calls transform::transform    *)
(* inline, with no spawn_blocking: from the return of get_object to the    *)
(* return of transform the task keeps the worker that polled it.  Here the *)
(* last step of the handler is taken in two, to see the time in between.   *)
(***************************************************************************)
NumWorkers == 1

\* The tasks that are inside transform::transform, each on a worker.
InTransform == {r \in Reqs : pc[r] = "transforming"}

\* A worker is left to poll a task or the I/O driver.
WorkerFree == Cardinality(InTransform) < NumWorkers

\* get_object returns the bytes and the request asks for a transform.
EntersTransform(r) ==
    /\ ~IsSome(get_object_body(req[r].key, req[r].body))
    /\ needs_transform(params_of(req[r].query))

\* A worker polls the task of r: handler.rs transform, lines 28-55.
PollStart(r) == WorkerFree /\ Start(r)

\* A worker sees the store's answer and polls the task of r.
PollSend(r) == WorkerFree /\ SendCompletes(r)

\* A worker sees the body read and polls the task of r, which ends without
\* a transform: a storage error, or the passthrough.
PollBody(r) == WorkerFree /\ ~EntersTransform(r) /\ BodyCompletes(r)

\* A worker sees the body read and polls the task of r, which calls
\* transform::transform (handler.rs line 79) on that worker.
PollTransform(r) ==
    /\ WorkerFree
    /\ pc[r] = "await_body"
    /\ EntersTransform(r)
    /\ input' = [input EXCEPT ![r] = Some(req[r].body.bytes)]
    /\ pc' = [pc EXCEPT ![r] = "transforming"]
    /\ UNCHANGED <<req, fetches, bodyReads, run, resp>>

\* transform::transform returns: the response, and the worker is free again.
TransformReturns(r) ==
    /\ pc[r] = "transforming"
    /\ Transformed(r, transform(params_of(req[r].query), req[r].codec))
    /\ UNCHANGED <<req, fetches, bodyReads, input>>

NextSched ==
    \E r \in Reqs :
        \/ PollStart(r)
        \/ PollSend(r)
        \/ PollBody(r)
        \/ PollTransform(r)
        \/ TransformReturns(r)

\* Requests in flight together: transforms, a passthrough, failures.
SchedScenarios ==
    {Served(GoodKey, q, JpegObject) :
        q \in {NoQuery, Query(Some(50), None, None, None),
               Query(None, None, Some("png"), None),
               Query(None, None, None, Some(0))}}
    \cup {Request(GoodKey, Query(Some(50), None, None, None), s,
                  BodyOk(Bytes(JpegHead, 2000)),
                  Codec(DecodeOk(100, 100, Some("Jpeg")), ResizeOk, EncodeOk)) :
            s \in {SendNoSuchKey, SendOk(Some(MAX_INPUT_SIZE + 1))}}
    \cup {Served(<<46, 46>>, NoQuery, JpegObject)}

InitSched == \E reqs \in [Reqs -> SchedScenarios] : InitRequests(reqs)
SpecSched == InitSched /\ [][NextSched]_vars

(***************************************************************************)
(* The properties.                                                         *)
(***************************************************************************)
Done(r) == req[r].active /\ pc[r] = "done"

\* transform made this call of the codec.
Called(r, call) == \E i \in 1..Len(run[r].calls) : run[r].calls[i] = call

\* A traversal pattern in a decoded key: "..", a leading "/", "//", "\".
TraversalRisk(decoded) ==
    \/ contains(decoded, <<46, 46>>)
    \/ starts_with(decoded, <<47>>)
    \/ contains(decoded, <<47, 47>>)
    \/ contains(decoded, <<92>>)

\* C1: a key whose percent-decoded value contains "..", starts with "/",
\* contains "//" or contains "\", written literally or percent-encoded, fails
\* validate_key; the handler answers 400 Bad Request and never issues the
\* fetch of that request.
C1_TraversalRejectedBeforeFetch ==
    \A r \in Reqs :
        req[r].active /\ TraversalRisk(decode_binary(req[r].key)) =>
            /\ ~validate_key(req[r].key).ok
            /\ fetches[r] = 0
            /\ bodyReads[r] = 0
            /\ pc[r] \in {"received", "done"}
            /\ pc[r] = "done" =>
                   resp[r].status = 400 /\ resp[r].error = "BadRequest"

\* A key whose traversal pattern shows only once it is decoded has been
\* answered.
C1_Witness ==
    \E r \in Reqs :
        /\ Done(r)
        /\ TraversalRisk(decode_binary(req[r].key))
        /\ ~TraversalRisk(req[r].key)
        /\ resp[r].msg = "invalid key: path traversal detected"
        /\ fetches[r] = 0

\* A quality outside 1..100, a width or a height outside 1..4096.
OutOfRange(query) ==
    \/ IsSome(query.q) /\ Unwrap(query.q) \notin 1..100
    \/ IsSome(query.w) /\ Unwrap(query.w) \notin 1..MAX_DIMENSION
    \/ IsSome(query.h) /\ Unwrap(query.h) \notin 1..MAX_DIMENSION

\* C2: a request whose quality is outside 1..100, or whose width or height is
\* outside 1..4096, is rejected before any fetch: the fetch of that request
\* never happens.
C2_InvalidParamsNeverFetched ==
    \A r \in Reqs :
        req[r].active /\ OutOfRange(req[r].query) => fetches[r] = 0

\* The source decoded and the request's parameters valid.
ValidDecoded(r) ==
    /\ Done(r)
    /\ run[r].ran
    /\ ~OutOfRange(req[r].query)
    /\ req[r].codec.decode.ok

\* C3: a decoded source of more than 16,777,216 pixels makes transform return
\* ResolutionTooLarge whatever the valid request asks for, with neither resize
\* nor encode called; a source of at most 16,777,216 pixels is never refused
\* by this check.
C3_PixelCountCheck ==
    \A r \in Reqs :
        ValidDecoded(r) =>
            IF req[r].codec.decode.w * req[r].codec.decode.h > 16777216
            THEN /\ run[r].err = "ResolutionTooLarge"
                 /\ run[r].errDims = <<req[r].codec.decode.w, req[r].codec.decode.h>>
                 /\ ~Called(r, "resize")
                 /\ ~Called(r, "encode")
                 /\ resp[r].status = 400
            ELSE run[r].failedAt # "validate_source_dimensions"

\* A 5000x5000 source asked down to 10x10 has been refused.
C3_Witness ==
    \E r \in Reqs :
        /\ ValidDecoded(r)
        /\ run[r].src = <<5000, 5000>>
        /\ req[r].query.w = Some(10)
        /\ req[r].query.h = Some(10)
        /\ run[r].err = "ResolutionTooLarge"
        /\ run[r].calls = <<"decode">>

\* transform came to calculate_contain_dimensions.
Resolved(r) ==
    /\ Done(r)
    /\ run[r].ran
    /\ run[r].failedAt \notin
           {"validate_params", "decode_image", "validate_source_dimensions"}

\* p/q rounded half away from zero, p >= 0 and q > 0.
RoundHalfAway(p, q) == (2 * p + q) \div (2 * q)

\* p/q lies half way between two integers.
IsTie(p, q) == (2 * p) % q = 0 /\ ((2 * p) \div q) % 2 = 1

\* The contain fit in exact arithmetic.
ContainFit(sw, sh, tw, th) ==
    IF IsSome(tw) /\ IsSome(th)
    THEN IF Unwrap(tw) * sh <= Unwrap(th) * sw
         THEN <<Max(1, RoundHalfAway(sw * Unwrap(tw), sw)),
                Max(1, RoundHalfAway(sh * Unwrap(tw), sw))>>
         ELSE <<Max(1, RoundHalfAway(sw * Unwrap(th), sh)),
                Max(1, RoundHalfAway(sh * Unwrap(th), sh))>>
    ELSE IF IsSome(tw)
    THEN <<Unwrap(tw), Max(1, RoundHalfAway(sh * Unwrap(tw), sw))>>
    ELSE IF IsSome(th)
    THEN <<Max(1, RoundHalfAway(sw * Unwrap(th), sh)), Unwrap(th)>>
    ELSE <<sw, sh>>

\* C4, as stated: calculate_contain_dimensions equals the contain fit computed
\* exactly, rounding half away from zero.
C4_EqualsExactContainFit ==
    \A r \in Reqs :
        Resolved(r) =>
            run[r].dst = ContainFit(run[r].src[1], run[r].src[2],
                                    req[r].query.w, req[r].query.h)

\* The scale p/q that the request puts on the sides of the source: the
\* smaller of tw/sw and th/sh, or the one that is given.
ScaleOf(sw, sh, tw, th) ==
    IF IsSome(tw) /\ (IsSome(th) => Unwrap(tw) * sh <= Unwrap(th) * sw)
    THEN <<Unwrap(tw), sw>>
    ELSE <<Unwrap(th), sh>>

\* d is what the code may make of side * p/q: the exact rounding, or, on a
\* tie, either neighbour.
ScaledSide(d, side, scale) ==
    IF IsTie(side * scale[1], scale[2])
    THEN d \in {Max(1, (side * scale[1]) \div scale[2]),
                (side * scale[1]) \div scale[2] + 1}
    ELSE d = Max(1, RoundHalfAway(side * scale[1], scale[2]))

\* C4, amended: both results are >= 1; with neither target the result is the
\* source's size, with one target that side is the target exactly; every
\* scaled side is the exact contain fit rounded half away from zero, except
\* where the exact value lies half way between two integers: there the double
\* arithmetic of the code gives either neighbour.
C4_ContainFitInDoubles ==
    \A r \in Reqs :
        Resolved(r) =>
            LET sw == run[r].src[1]
                sh == run[r].src[2]
                tw == req[r].query.w
                th == req[r].query.h
            IN /\ run[r].dst[1] >= 1
               /\ run[r].dst[2] >= 1
               /\ IF ~IsSome(tw) /\ ~IsSome(th)
                  THEN run[r].dst = <<sw, sh>>
                  ELSE /\ ScaledSide(run[r].dst[1], sw, ScaleOf(sw, sh, tw, th))
                       /\ ScaledSide(run[r].dst[2], sh, ScaleOf(sw, sh, tw, th))
                       /\ IsSome(tw) /\ ~IsSome(th) => run[r].dst[1] = Unwrap(tw)
                       /\ IsSome(th) /\ ~IsSome(tw) => run[r].dst[2] = Unwrap(th)

\* A 6x27 source asked to the width 13: 27 * 13 / 6 is 58.5, the code has 58.
C4_Witness ==
    \E r \in Reqs :
        /\ Resolved(r)
        /\ run[r].src = <<6, 27>>
        /\ req[r].query.w = Some(13)
        /\ req[r].query.h = None
        /\ run[r].dst = <<13, 58>>
        /\ ContainFit(6, 27, Some(13), None) = <<13, 59>>

\* C5, as stated: with both width and height requested, or with neither, both
\* resolved dimensions are <= 4096 and the output-dimension check passes.
C5_OnlyOneSidedRequestsFail ==
    \A r \in Reqs :
        Resolved(r) /\ (IsSome(req[r].query.w) <=> IsSome(req[r].query.h)) =>
            /\ run[r].dst[1] <= 4096
            /\ run[r].dst[2] <= 4096
            /\ run[r].failedAt # "validate_output_dimensions"

\* C5, amended: with both width and height requested both resolved dimensions
\* are <= 4096 and the output-dimension check passes; with neither requested
\* the resolved dimensions are the source's, and the check fails exactly when
\* a side of the source exceeds 4096.  A failure of the check is
\* ResolutionTooLarge with the resolved dimensions, before resize and encode.
C5_OutputCheckByBranch ==
    \A r \in Reqs :
        Resolved(r) =>
            /\ IsSome(req[r].query.w) /\ IsSome(req[r].query.h) =>
                   /\ run[r].dst[1] <= 4096
                   /\ run[r].dst[2] <= 4096
                   /\ run[r].failedAt # "validate_output_dimensions"
            /\ ~IsSome(req[r].query.w) /\ ~IsSome(req[r].query.h) =>
                   /\ run[r].dst = run[r].src
                   /\ run[r].failedAt = "validate_output_dimensions"
                          <=> (run[r].src[1] > 4096 \/ run[r].src[2] > 4096)
            /\ run[r].failedAt = "validate_output_dimensions" =>
                   /\ run[r].err = "ResolutionTooLarge"
                   /\ run[r].errDims = run[r].dst
                   /\ run[r].calls = <<"decode">>
                   /\ resp[r].status = 400

\* An 8192x2048 source (16,777,216 pixels) asked for as PNG, no size given,
\* has been refused by the output-dimension check.
C5_Witness ==
    \E r \in Reqs :
        /\ Resolved(r)
        /\ run[r].src = <<8192, 2048>>
        /\ req[r].query.w = None
        /\ req[r].query.h = None
        /\ run[r].failedAt = "validate_output_dimensions"
        /\ resp[r].status = 400

\* transform came to the negotiation of the output format.
Negotiated(r) ==
    /\ Done(r)
    /\ run[r].ran
    /\ run[r].failedAt \in {"", "quality", "encode_image"}

\* The format the request and the source negotiate: the requested one, else
\* the source's when it is one of the four, else JPEG.
NegotiatedFormat(r) ==
    IF IsSome(params_of(req[r].query).format)
    THEN Unwrap(params_of(req[r].query).format)
    ELSE IF req[r].codec.decode.format \in
                {Some("Jpeg"), Some("Png"), Some("WebP"), Some("Avif")}
    THEN Unwrap(req[r].codec.decode.format)
    ELSE "Jpeg"

\* C6: when the negotiated format is PNG or WebP and a quality is supplied,
\* transform fails with InvalidParams and encode is never called; when it is
\* JPEG or AVIF, the supplied quality is accepted and the encoder receives
\* it, or 80 when none was supplied.
C6_QualityPolicy ==
    \A r \in Reqs :
        Negotiated(r) =>
            /\ NegotiatedFormat(r) \in {"Png", "WebP"} /\ IsSome(req[r].query.q) =>
                   /\ run[r].err = "InvalidParams"
                   /\ ~Called(r, "encode")
                   /\ resp[r].status = 400
            /\ NegotiatedFormat(r) \in {"Jpeg", "Avif"} =>
                   /\ run[r].err # "InvalidParams"
                   /\ Called(r, "encode")
                   /\ run[r].quality = IF IsSome(req[r].query.q)
                                       THEN Unwrap(req[r].query.q)
                                       ELSE 80

\* A PNG source, no format requested, with a quality, has been refused
\* before encode.
C6_Witness ==
    \E r \in Reqs :
        /\ Negotiated(r)
        /\ req[r].query.f = None
        /\ req[r].codec.decode.format = Some("Png")
        /\ req[r].query.q = Some(80)
        /\ run[r].err = "InvalidParams"
        /\ ~Called(r, "encode")

\* C7: determine_output_format returns the requested format whenever one is
\* requested; otherwise the detected source format when that is JPEG, PNG,
\* WebP or AVIF; otherwise JPEG.  The content type of every successful
\* transform is one of the four canonical MIME types.
C7_FormatNegotiation ==
    \A r \in Reqs :
        Negotiated(r) =>
            /\ run[r].output_format = NegotiatedFormat(r)
            /\ resp[r].status = 200 =>
                   /\ resp[r].content_type \in
                          {"image/jpeg", "image/png", "image/webp", "image/avif"}
                   /\ resp[r].content_type =
                          CASE NegotiatedFormat(r) = "Jpeg" -> "image/jpeg"
                            [] NegotiatedFormat(r) = "Png" -> "image/png"
                            [] NegotiatedFormat(r) = "WebP" -> "image/webp"
                            [] NegotiatedFormat(r) = "Avif" -> "image/avif"

\* A PNG source asked for as JPEG has been served as image/jpeg.
C7_Witness ==
    \E r \in Reqs :
        /\ Negotiated(r)
        /\ req[r].codec.decode.format = Some("Png")
        /\ req[r].query.f = Some("jpg")
        /\ resp[r].status = 200
        /\ resp[r].content_type = "image/jpeg"

\* The bytes of pat stand at offset off of the body b.
Magic(b, off, pat) ==
    b.len >= off + Len(pat) /\ SubSeq(b.head, off + 1, off + Len(pat)) = pat

\* The content type of the four magic numbers: FF D8 FF, 89 "PNG",
\* "RIFF"...."WEBP", ...."ftypavif".
Sniffed(b) ==
    IF Magic(b, 0, <<255, 216, 255>>) THEN "image/jpeg"
    ELSE IF Magic(b, 0, <<137, 80, 78, 71>>) THEN "image/png"
    ELSE IF Magic(b, 0, <<82, 73, 70, 70>>) /\ Magic(b, 8, <<87, 69, 66, 80>>)
    THEN "image/webp"
    ELSE IF Magic(b, 4, <<102, 116, 121, 112, 97, 118, 105, 102>>)
    THEN "image/avif"
    ELSE "application/octet-stream"

\* A request with a valid key and none of w, h, f, q, whose fetch succeeded.
Passthrough(r) ==
    /\ Done(r)
    /\ req[r].query = NoQuery
    /\ IsSome(input[r])

\* C8: a request with a valid key and none of w, h, f, q whose fetch succeeds
\* is answered with exactly the fetched bytes, no decode, resize or encode is
\* called, and the content type is the one sniffed from the leading bytes,
\* application/octet-stream when no magic number matches.
C8_PassthroughUntouched ==
    \A r \in Reqs :
        Passthrough(r) =>
            /\ resp[r].status = 200
            /\ resp[r].body = req[r].body.bytes
            /\ resp[r].body = Unwrap(input[r])
            /\ run[r] = NoRun
            /\ resp[r].content_type = Sniffed(req[r].body.bytes)

\* A RIFF body that is no WebP has been passed through as
\* application/octet-stream.
C8_Witness ==
    \E r \in Reqs :
        /\ Passthrough(r)
        /\ req[r].body.bytes.head = WaveHead
        /\ resp[r].body = req[r].body.bytes
        /\ resp[r].content_type = "application/octet-stream"

\* C9: get_object never returns a body longer than 10 MiB: a reported content
\* length above 10 MiB fails with TooLarge before the body is read; a read
\* body above 10 MiB fails with TooLarge whatever length was reported; no
\* passthrough and no transform runs on more than 10 MiB of input.
C9_InputSizeLimit ==
    \A r \in Reqs :
        req[r].active =>
            /\ /\ req[r].send.kind = "ok"
               /\ IsSome(req[r].send.content_length)
               /\ Unwrap(req[r].send.content_length) > 10 * 1024 * 1024
               => /\ bodyReads[r] = 0
                  /\ input[r] = None
                  /\ Done(r) /\ fetches[r] = 1 =>
                         /\ resp[r].status = 400
                         /\ resp[r].msg =
                                "object too large: "
                                    \o ToString(Unwrap(req[r].send.content_length))
                                    \o " bytes (max: 10485760 bytes)"
            /\ /\ Done(r)
               /\ bodyReads[r] = 1
               /\ req[r].body.ok
               /\ req[r].body.bytes.len > 10 * 1024 * 1024
               => /\ resp[r].status = 400
                  /\ resp[r].msg =
                         "object too large: " \o ToString(req[r].body.bytes.len)
                             \o " bytes (max: 10485760 bytes)"
                  /\ input[r] = None
                  /\ run[r] = NoRun
            /\ IsSome(input[r]) => Unwrap(input[r]).len <= 10 * 1024 * 1024
            /\ run[r].ran \/ resp[r].status = 200 => IsSome(input[r])

\* A body above 10 MiB whose length the store did not report has been read
\* and refused.
C9_Witness ==
    \E r \in Reqs :
        /\ Done(r)
        /\ req[r].send.content_length = None
        /\ bodyReads[r] = 1
        /\ req[r].body.ok
        /\ req[r].body.bytes.len > 10 * 1024 * 1024
        /\ resp[r].status = 400
        /\ input[r] = None

\* C10: for storage transport failures and for codec failures (decode,
\* resize, encode) the message of the response is a fixed generic one: two
\* requests that fail in the same class, at the same step, have the same
\* response message whatever the internal error texts.
C10_GenericFailureMessages ==
    \A r1, r2 \in Reqs :
        /\ Done(r1)
        /\ Done(r2)
        /\ resp[r1].error \in {"Internal", "TransformFailed"}
        /\ resp[r1].error = resp[r2].error
        /\ run[r1].failedAt = run[r2].failedAt
        => resp[r1].msg = resp[r2].msg

\* The handler of r has a step to take: the request has arrived, or the
\* store has answered it.
InFlight(r) == req[r].active /\ pc[r] \in {"received", "await_send", "await_body"}

\* The step of r that the runtime takes when a worker polls its task.
Progress(r) == PollStart(r) \/ PollSend(r) \/ PollBody(r) \/ PollTransform(r)

\* C11: the decode/resize/encode work of one request does not run on the
\* execution context that multiplexes the network I/O: while one request is
\* inside transform, the runtime can still accept and make progress on every
\* other request in flight.
C11_TransformLeavesDispatchFree ==
    \A r, other \in Reqs :
        pc[r] = "transforming" /\ InFlight(other) => ENABLED Progress(other)

\* The first stage of transform that fails on the request r, "" when none
\* does: parameter validation, decode, the pixel count of the source, the
\* resolved dimensions, resize, the quality against the negotiated format,
\* encode.
FirstFailingStage(r) ==
    IF OutOfRange(req[r].query) THEN "validate_params"
    ELSE IF ~req[r].codec.decode.ok THEN "decode_image"
    ELSE IF req[r].codec.decode.w * req[r].codec.decode.h > 16777216
    THEN "validate_source_dimensions"
    ELSE IF run[r].dst[1] > 4096 \/ run[r].dst[2] > 4096
    THEN "validate_output_dimensions"
    ELSE IF /\ run[r].dst # <<req[r].codec.decode.w, req[r].codec.decode.h>>
            /\ ~req[r].codec.resize.ok
    THEN "resize_image"
    ELSE IF NegotiatedFormat(r) \in {"Png", "WebP"} /\ IsSome(req[r].query.q)
    THEN "quality"
    ELSE IF ~req[r].codec.encode.ok THEN "encode_image"
    ELSE ""

\* The error of a failure at a stage.
ErrorOfStage(stage) ==
    CASE stage \in {"validate_params", "quality"} -> "InvalidParams"
      [] stage \in {"validate_source_dimensions", "validate_output_dimensions"} ->
            "ResolutionTooLarge"
      [] stage \in {"decode_image", "resize_image", "encode_image"} ->
            "ProcessingFailed"
      [] stage = "" -> ""

\* The codec calls made when transform stops at a stage ("": at its end),
\* resizing telling whether a side changes.
CallsToStage(stage, resizing) ==
    CASE stage = "validate_params" -> <<>>
      [] stage \in {"decode_image", "validate_source_dimensions",
                    "validate_output_dimensions"} -> <<"decode">>
      [] stage = "resize_image" -> <<"decode", "resize">>
      [] stage = "quality" ->
            IF resizing THEN <<"decode", "resize">> ELSE <<"decode">>
      [] stage \in {"encode_image", ""} ->
            IF resizing THEN <<"decode", "resize", "encode">>
            ELSE <<"decode", "encode">>

\* C12: transform runs its stages in the order parameter validation, decode,
\* source pixel-count check, dimension resolution, output-dimension check,
\* resize, format negotiation with the quality check, encode; the error is
\* that of the earliest failing stage, no later stage is invoked after a
\* failure, and an error carries no output bytes.
C12_FirstFailureWins ==
    \A r \in Reqs :
        Done(r) /\ run[r].ran =>
            /\ run[r].failedAt = FirstFailingStage(r)
            /\ run[r].err = ErrorOfStage(FirstFailingStage(r))
            /\ run[r].calls =
                   CallsToStage(FirstFailingStage(r),
                                run[r].dst # <<req[r].codec.decode.w,
                                               req[r].codec.decode.h>>)
            /\ IF FirstFailingStage(r) = ""
               THEN /\ resp[r].status = 200
                    /\ run[r].out = req[r].codec.encode.bytes
                    /\ resp[r].body = run[r].out
               ELSE /\ run[r].out = EmptyBytes
                    /\ resp[r].body = EmptyBytes
                    /\ resp[r].status \in {400, 422}

\* Quality 0 on bytes that do not decode has been answered InvalidParams,
\* the decoder never called.
C12_Witness ==
    \E r \in Reqs :
        /\ Done(r)
        /\ run[r].ran
        /\ req[r].query.q = Some(0)
        /\ ~req[r].codec.decode.ok
        /\ run[r].err = "InvalidParams"
        /\ run[r].calls = <<>>
        /\ resp[r].status = 400

====
